---- MODULE Spec2Model ----
(***************************************************************************)
(* CHIP-8 interpreter of m33ls/chip8: the Chip8 aggregate and              *)
(* emulate_cycle of src/processor.rs, driven by the host loop of           *)
(* src/main.rs (initialize, load_fontset, load_program, then cycles        *)
(* interleaved with key events).                                           *)
(*                                                                         *)
(* A Rust panic (index out of bounds, arithmetic overflow in a build with  *)
(* overflow checks) ends the process: status becomes "panicked" and the    *)
(* fields keep what the cycle had written before the panicking expression. *)
(* emulate_cycle has return type (), so the only value it ever hands back  *)
(* is "unit".                                                              *)
(*                                                                         *)
(* src/main.rs also keeps a Chip8 of its own, whose emulate_cycle differs  *)
(* from the one of src/processor.rs and ends with a timer update; it is    *)
(* main_emulate_cycle, and NextMain / SpecMain run it in the same loop.    *)
(*                                                                         *)
(* The window events of the host loop (a redraw request, which copies the  *)
(* pixel buffer to the frame when draw_flag is set, and a resize) are      *)
(* redraw_requested and window_resized; NextHost / SpecHost add them.      *)
(*                                                                         *)
(* The two large arrays are held sparsely: memory maps the addresses whose *)
(* byte is not 0 to that byte (Mem reads any address of 0..4095), and gfx  *)
(* is the set of cells <<column, row>> whose value is 1 (Pixel reads a     *)
(* cell); gfx cells only ever hold 0 or 1, being 0 at first and changed by *)
(* ^= with a single bit.  Every index the code computes is checked against *)
(* the array's length where the code indexes, as Rust does.                *)
(***************************************************************************)
EXTENDS Integers, Sequences, FiniteSets, TLC

VARIABLES
    opcode, memory, v, i, pc, gfx, delay_timer, sound_timer, stack, sp, key,
    draw_flag,        \* the fields of struct Chip8
    status,           \* "running" | "panicked"
    phase,            \* position of main(): "initialized" | "fontset" | "loaded"
    overflow_checks,  \* build profile: TRUE = debug (overflow panics), FALSE = release (wraps)
    suite,            \* the run's environment: which program images are on disk
                      \* and which keys the user touches
    returned,         \* what the last emulate_cycle call returned: "none" | "unit"
    printed,          \* what the last emulate_cycle call printed
    before,           \* history: fields as they were when the last cycle started
    nCalls, nRets,    \* history: CALL / RET instructions run to completion
    calls,            \* history: addresses of the completed CALLs not yet returned from
    frame             \* the pixel buffer as the last draw left it (lit pixels)

chip == <<opcode, memory, v, i, pc, gfx, delay_timer, sound_timer, stack, sp,
          key, draw_flag>>
hist == <<returned, printed, before, nCalls, nRets, calls, frame>>
vars == <<chip, status, phase, overflow_checks, suite, hist>>

\* ------------------------------------------------------------------ bounds
MaxStackOps  == 36   \* CALL + RET instructions completed in one run
MaxCtlLen    == 3    \* words in a generated control-flow program

\* --------------------------------------------------------------- constants
WIDTH      == 64
HEIGHT     == 32
MEM_SIZE   == 4096
STACK_SIZE == 16
NUM_REGS   == 16
NUM_KEYS   == 16
PROG_START == 512
FONT_LEN   == 80
\* usize::MAX, the value 0usize - 1 wraps to in a build without overflow
\* checks.  2^64 - 1 is beyond TLC's integers; it is represented by -1, the
\* same value modulo 2^64.
USIZE_MAX  == -1

Byte == 0..255

\* ------------------------------------------------------------ bit operators
RECURSIVE BitAnd(_, _)
BitAnd(a, b) ==
    IF a = 0 \/ b = 0 THEN 0
    ELSE (a % 2) * (b % 2) + 2 * BitAnd(a \div 2, b \div 2)

RECURSIVE BitOr(_, _)
BitOr(a, b) ==
    IF a = 0 THEN b ELSE IF b = 0 THEN a
    ELSE (IF a % 2 = 1 \/ b % 2 = 1 THEN 1 ELSE 0) + 2 * BitOr(a \div 2, b \div 2)

RECURSIVE BitXor(_, _)
BitXor(a, b) ==
    IF a = 0 THEN b ELSE IF b = 0 THEN a
    ELSE ((a + b) % 2) + 2 * BitXor(a \div 2, b \div 2)

RECURSIVE Pow2(_)
Pow2(k) == IF k = 0 THEN 1 ELSE 2 * Pow2(k - 1)

Shr(a, k) == a \div Pow2(k)

\* ----------------------------------------------------------------- fontset
fontset == <<
    240, 144, 144, 144, 240,   \* 0
     32,  96,  32,  32, 112,   \* 1
    240,  16, 240, 128, 240,   \* 2
    240,  16, 240,  16, 240,   \* 3
    144, 144, 240,  16,  16,   \* 4
    240, 128, 240,  16, 240,   \* 5
    240, 128, 240, 144, 240,   \* 6
    240,  16,  32,  64,  64,   \* 7
    240, 144, 240, 144, 240,   \* 8
    240, 144, 240,  16, 240,   \* 9
    240, 144, 240, 144, 144,   \* A
    224, 144, 224, 144, 224,   \* B
    240, 128, 128, 128, 240,   \* C
    224, 144, 144, 144, 224,   \* D
    240, 128, 240, 128, 240,   \* E
    240, 128, 240, 128, 128 >> \* F

\* [[0x00; 32]; 64]
ClearGfx == {}
Pixel(g, c, r) == IF <<c, r>> \in g THEN 1 ELSE 0
SetPixel(g, c, r, val) == IF val = 0 THEN g \ {<<c, r>>} ELSE g \cup {<<c, r>>}

\* memory[a], for a in 0..4095
Mem(a) == IF a \in DOMAIN memory THEN memory[a] ELSE 0
\* memory[base + k] = bytes[k + 1] for each k in order, up to the end of memory
MemStoreAll(m, base, bytes) ==
    LET span    == {a \in base..(base + Len(bytes) - 1) : a < MEM_SIZE}
        byte(a) == IF a \in span THEN bytes[a - base + 1]
                   ELSE IF a \in DOMAIN m THEN m[a] ELSE 0
    IN  [a \in {k \in DOMAIN m \cup span : byte(k) # 0} |-> byte(a)]

\* The fields a later cycle is compared against.
Snapshot == [pc |-> pc, sp |-> sp, gfx |-> gfx, v |-> v, i |-> i, opcode |-> opcode]

\* -------------------------------------------------------------- initialize
\* initialize leaving pc at 0.
initialize_PcZero ==
    /\ opcode = 0
    /\ memory = <<>>
    /\ v = [r \in 0..(NUM_REGS - 1) |-> 0]
    /\ i = 0
    /\ pc = 0
    /\ gfx = ClearGfx
    /\ delay_timer = 0
    /\ sound_timer = 0
    /\ stack = [s \in 0..(STACK_SIZE - 1) |-> 0]
    /\ sp = 0
    /\ key = [k \in 0..(NUM_KEYS - 1) |-> 0]
    /\ draw_flag = FALSE
initialize ==
    /\ opcode = 0
    /\ memory = <<>>
    /\ v = [r \in 0..(NUM_REGS - 1) |-> 0]
    /\ i = 0
    /\ pc = PROG_START
    /\ gfx = ClearGfx
    /\ delay_timer = 0
    /\ sound_timer = 0
    /\ stack = [s \in 0..(STACK_SIZE - 1) |-> 0]
    /\ sp = 0
    /\ key = [k \in 0..(NUM_KEYS - 1) |-> 0]
    /\ draw_flag = FALSE

\* ------------------------------------------------------------ load_fontset
load_fontset ==
    /\ phase = "initialized"
    /\ memory' = MemStoreAll(memory, 0, fontset)
    /\ phase' = "fontset"
    /\ UNCHANGED <<opcode, v, i, pc, gfx, delay_timer, sound_timer, stack, sp,
                   key, draw_flag>>
    /\ UNCHANGED <<status, overflow_checks, suite, hist>>

\* ------------------------------------------------------------ load_program
\* An image is the byte sequence fs::read returns for the path given on the
\* command line; the images on disk are those of the family the
\* specification names (see the program families below).
RECURSIVE Asm(_)
Asm(ws) ==
    IF ws = <<>> THEN <<>>
    ELSE <<Head(ws) \div 256, Head(ws) % 256>> \o Asm(Tail(ws))

\* for i in 0..data.len() { self.memory[i + 512] = data[i]; }
\* The write at i + 512 = 4096 panics; the bytes before it are written.
load_program_data(data) ==
    /\ memory' = MemStoreAll(memory, PROG_START, data)
    /\ status' = IF Len(data) > MEM_SIZE - PROG_START THEN "panicked" ELSE status

\* ----------------------------------------------------------- fetch / decode
\* get_opcode: big-endian word at pc; reading memory[4096] panics.
FetchInBounds == pc + 1 < MEM_SIZE
get_opcode == Mem(pc) * 256 + Mem(pc + 1)

family == get_opcode \div 4096
x      == (get_opcode \div 256) % 16
y      == (get_opcode \div 16) % 16
n      == get_opcode % 16
kk     == get_opcode % 256
nnn    == get_opcode % 4096

\* ------------------------------------------------------------ instructions
\* Every handler gives the fields of Chip8 other than opcode, the status and
\* the line printed.  self.log(..) prints pc, opcode and the mnemonic.

\* 00E0 (matched as family 0, low nibble 0)
Op_CLS ==
    /\ gfx' = ClearGfx
    /\ draw_flag' = TRUE
    /\ pc' = pc + 2
    /\ printed' = "CLS"
    /\ UNCHANGED <<memory, v, i, delay_timer, sound_timer, stack, sp, key, status>>

\* 00EE returning to the oldest entry of the stack instead of the newest.
Op_RET_Oldest ==
    IF sp = 0
    THEN /\ sp' = IF overflow_checks THEN sp ELSE USIZE_MAX
         /\ status' = "panicked"
         /\ printed' = "panic"
         /\ UNCHANGED <<memory, v, i, pc, gfx, delay_timer, sound_timer, stack,
                        key, draw_flag>>
    ELSE /\ sp' = sp - 1
         /\ pc' = stack[0]
         /\ printed' = "RET"
         /\ UNCHANGED <<memory, v, i, gfx, delay_timer, sound_timer, stack, key,
                        draw_flag, status>>

\* 00EE (matched as family 0, low nibble E): self.sp -= 1; self.pc = self.stack[self.sp]
Op_RET ==
    IF sp = 0
    THEN \* 0usize - 1: panics with overflow checks; otherwise wraps to
         \* usize::MAX and the index into stack panics.
         /\ sp' = IF overflow_checks THEN sp ELSE USIZE_MAX
         /\ status' = "panicked"
         /\ printed' = "panic"
         /\ UNCHANGED <<memory, v, i, pc, gfx, delay_timer, sound_timer, stack,
                        key, draw_flag>>
    ELSE /\ sp' = sp - 1
         /\ pc' = stack[sp - 1]
         /\ printed' = "RET"
         /\ UNCHANGED <<memory, v, i, gfx, delay_timer, sound_timer, stack, key,
                        draw_flag, status>>

\* An unmatched sub-opcode of family 0, 8, E or F: println! only.
Op_UnknownInner ==
    /\ printed' = "Unknown opcode"
    /\ UNCHANGED <<memory, v, i, pc, gfx, delay_timer, sound_timer, stack, sp,
                   key, draw_flag, status>>

\* 1nnn
Op_JP ==
    /\ pc' = nnn
    /\ printed' = "JP addr"
    /\ UNCHANGED <<memory, v, i, gfx, delay_timer, sound_timer, stack, sp, key,
                   draw_flag, status>>

\* Op_CALL pushing the address of the CALL itself instead of the one after it.
Op_CALL_PushesOwnAddress ==
    IF sp >= STACK_SIZE
    THEN /\ status' = "panicked"
         /\ printed' = "panic"
         /\ UNCHANGED <<memory, v, i, pc, gfx, delay_timer, sound_timer, stack,
                        sp, key, draw_flag>>
    ELSE /\ stack' = [stack EXCEPT ![sp] = pc]
         /\ sp' = sp + 1
         /\ pc' = nnn
         /\ printed' = "CALL addr"
         /\ UNCHANGED <<memory, v, i, gfx, delay_timer, sound_timer, key,
                        draw_flag, status>>

\* 2nnn: self.stack[self.sp] = self.pc + 2; self.sp += 1; self.pc = nnn
Op_CALL ==
    IF sp >= STACK_SIZE
    THEN \* the store into stack[16] panics
         /\ status' = "panicked"
         /\ printed' = "panic"
         /\ UNCHANGED <<memory, v, i, pc, gfx, delay_timer, sound_timer, stack,
                        sp, key, draw_flag>>
    ELSE /\ stack' = [stack EXCEPT ![sp] = pc + 2]
         /\ sp' = sp + 1
         /\ pc' = nnn
         /\ printed' = "CALL addr"
         /\ UNCHANGED <<memory, v, i, gfx, delay_timer, sound_timer, key,
                        draw_flag, status>>

\* The skips: pc += 4 if the condition holds, else pc += 2.
Skip(cond, mnemonic) ==
    /\ pc' = IF cond THEN pc + 4 ELSE pc + 2
    /\ printed' = mnemonic
    /\ UNCHANGED <<memory, v, i, gfx, delay_timer, sound_timer, stack, sp, key,
                   draw_flag, status>>

\* 3xkk
Op_SE_byte == Skip(v[x] = kk, "SE Vx, byte")
\* 4xkk
Op_SNE_byte == Skip(v[x] # kk, "SNE Vx, byte")
\* 5xy0 with the shift of 9xy0.
Op_SE_reg_Shifted == Skip(v[x] = Shr(v[y], 4), "SE Vx, Vy")
\* 5xy0 (the low nibble is not examined)
Op_SE_reg == Skip(v[x] = v[y], "SE Vx, Vy")
\* 9xy0: if self.v[x] != self.v[y] >> 4
Op_SNE_reg == Skip(v[x] # Shr(v[y], 4), "SNE Vx, Vy")

\* Register-only instructions: the new register file, then pc += 2.
SetRegs(newv, mnemonic) ==
    /\ v' = newv
    /\ pc' = pc + 2
    /\ printed' = mnemonic
    /\ UNCHANGED <<memory, i, gfx, delay_timer, sound_timer, stack, sp, key,
                   draw_flag, status>>

\* 6xkk taking the byte with the mask 0x000F.
Op_LD_byte_LowNibble == SetRegs([v EXCEPT ![x] = n], "LD Vx, byte")
\* 6xkk
Op_LD_byte == SetRegs([v EXCEPT ![x] = kk], "LD Vx, byte")
\* 7xkk saturating at 255.
Op_ADD_byte_Saturating ==
    SetRegs([v EXCEPT ![x] = IF v[x] + kk > 255 THEN 255 ELSE v[x] + kk],
            "ADD Vx, byte")
\* 7xkk: (self.v[x] as u16 + kk as u16) as u8
Op_ADD_byte == SetRegs([v EXCEPT ![x] = (v[x] + kk) % 256], "ADD Vx, byte")

\* 8xy0 .. 8xy3
Op_LD_reg  == SetRegs([v EXCEPT ![x] = v[y]], "LD Vx, Vy")
Op_OR      == SetRegs([v EXCEPT ![x] = BitOr(v[x], v[y])], "OR Vx, Vy")
Op_AND     == SetRegs([v EXCEPT ![x] = BitAnd(v[x], v[y])], "AND Vx, Vy")
Op_XOR     == SetRegs([v EXCEPT ![x] = BitXor(v[x], v[y])], "XOR Vx, Vy")

\* 8xy4: result = Vx + Vy as u16; Vx = result as u8; then VF = (result > 0xFF)
AddFlag_Truncated(result) == IF result % 256 > 255 THEN 1 ELSE 0
AddFlag(result) == IF result > 255 THEN 1 ELSE 0
AddRegs ==
    LET result == v[x] + v[y]
        v1     == [v EXCEPT ![x] = result % 256]
    IN  [v1 EXCEPT ![15] = AddFlag(result)]
Op_ADD_reg == SetRegs(AddRegs, "ADD Vx, Vy")

\* 8xy5: VF = (Vx > Vy); then Vx = Vx.wrapping_sub(Vy), read after VF is written
SubFlag(a, b) == IF a > b THEN 1 ELSE 0
SubRegs ==
    LET v1 == [v EXCEPT ![15] = SubFlag(v[x], v[y])]
    IN  [v1 EXCEPT ![x] = (v1[x] - v1[y]) % 256]
Op_SUB == SetRegs(SubRegs, "SUB Vx, Vy")

\* 8xy6: VF = Vx & 1; then Vx >>= 1
ShrRegs ==
    LET v1 == [v EXCEPT ![15] = v[x] % 2]
    IN  [v1 EXCEPT ![x] = v1[x] \div 2]
Op_SHR == SetRegs(ShrRegs, "SHR Vx {, Vy}")

\* 8xy7: VF = (Vy > Vx); then Vx = Vy - Vx, a plain u8 subtraction read after
\* VF is written: it panics on underflow with overflow checks, else wraps.
SubnFlagged == [v EXCEPT ![15] = SubFlag(v[y], v[x])]
SubnUnderflow == SubnFlagged[y] < SubnFlagged[x]
SubnRegs == [SubnFlagged EXCEPT ![x] = (SubnFlagged[y] - SubnFlagged[x]) % 256]
Op_SUBN ==
    IF SubnUnderflow /\ overflow_checks
    THEN /\ v' = SubnFlagged
         /\ status' = "panicked"
         /\ printed' = "panic"
         /\ UNCHANGED <<memory, i, pc, gfx, delay_timer, sound_timer, stack, sp,
                        key, draw_flag>>
    ELSE SetRegs(SubnRegs, "SUBN Vx, Vy")

\* 8xyE: VF = (Vx & 0x80) >> 7; then Vx <<= 1
ShlRegs ==
    LET v1 == [v EXCEPT ![15] = Shr(BitAnd(v[x], 128), 7)]
    IN  [v1 EXCEPT ![x] = (v1[x] * 2) % 256]
Op_SHL == SetRegs(ShlRegs, "SHL Vx {, Vy}")

\* Annn
Op_LD_I ==
    /\ i' = nnn
    /\ pc' = pc + 2
    /\ printed' = "LD I, addr"
    /\ UNCHANGED <<memory, v, gfx, delay_timer, sound_timer, stack, sp, key,
                   draw_flag, status>>

\* Bnnn: pc = nnn + V0 (at most 4095 + 255, no u16 overflow)
Op_JP_V0 ==
    /\ pc' = nnn + v[0]
    /\ printed' = "JP V0, addr"
    /\ UNCHANGED <<memory, v, i, gfx, delay_timer, sound_timer, stack, sp, key,
                   draw_flag, status>>

\* Cxkk: Vx = random byte & kk
Op_RND == \E rnd \in Byte : SetRegs([v EXCEPT ![x] = BitAnd(rnd, kk)], "RND Vx, byte")

\* Dxyn.  self.v[0xF] = 0 comes first, and v[x], v[y] are read inside the
\* loops: dxyn_y once per sprite row, dxyn_x and the sprite byte once per bit.
\* A draw state is [gfx, vf, ok]; ok = FALSE once memory[i + byte] was out
\* of bounds (the panic leaves what was drawn so far).
DrwReg(r, vf) == IF r = 15 THEN vf ELSE v[r]
\* PixelOp switching pixels on without ever switching them off.
PixelOp_Or(old, color) == BitOr(old, color)
PixelOp(old, color) == BitXor(old, color)

RECURSIVE DrwBits(_, _, _, _)
DrwBits(byte, dxyn_y, bit, st) ==
    IF bit = 8 \/ ~st.ok THEN st
    ELSE IF i + byte >= MEM_SIZE THEN [st EXCEPT !.ok = FALSE]
    ELSE LET dxyn_x == (DrwReg(x, st.vf) + bit) % WIDTH
             color  == Shr(Mem(i + byte), 7 - bit) % 2
             old    == Pixel(st.gfx, dxyn_x, dxyn_y)
         IN  DrwBits(byte, dxyn_y, bit + 1,
                     [gfx |-> SetPixel(st.gfx, dxyn_x, dxyn_y, PixelOp(old, color)),
                      vf  |-> BitOr(st.vf, BitAnd(color, old)),
                      ok  |-> TRUE])

RECURSIVE DrwRows(_, _)
DrwRows(byte, st) ==
    IF byte = n \/ ~st.ok THEN st
    ELSE DrwRows(byte + 1,
                 DrwBits(byte, (DrwReg(y, st.vf) + byte) % HEIGHT, 0, st))

DrwResult == DrwRows(0, [gfx |-> gfx, vf |-> 0, ok |-> TRUE])

Op_DRW ==
    LET res == DrwResult IN
    /\ gfx' = res.gfx
    /\ v' = [v EXCEPT ![15] = res.vf]
    /\ IF res.ok
       THEN /\ draw_flag' = TRUE
            /\ pc' = pc + 2
            /\ printed' = "DRW Vx, Vy, nibble"
            /\ UNCHANGED status
       ELSE /\ status' = "panicked"
            /\ printed' = "panic"
            /\ UNCHANGED <<draw_flag, pc>>
    /\ UNCHANGED <<memory, i, delay_timer, sound_timer, stack, sp, key>>

\* Ex9E / ExA1 (matched on the low nibble only): key[Vx] panics for Vx > 15
KeySkip(cond, mnemonic) ==
    IF v[x] >= NUM_KEYS
    THEN /\ status' = "panicked"
         /\ printed' = "panic"
         /\ UNCHANGED <<memory, v, i, pc, gfx, delay_timer, sound_timer, stack,
                        sp, key, draw_flag>>
    ELSE Skip(cond, mnemonic)

Op_SKP  == KeySkip(v[x] < NUM_KEYS /\ key[v[x]] = 1, "SKP Vx")
\* ExA1 with the test of Ex9E.
Op_SKNP_AsPressed == KeySkip(v[x] < NUM_KEYS /\ key[v[x]] = 1, "SKNP Vx")
Op_SKNP == KeySkip(v[x] < NUM_KEYS /\ key[v[x]] # 1, "SKNP Vx")

\* Fx07
Op_LD_Vx_DT == SetRegs([v EXCEPT ![x] = delay_timer], "LD Vx, DT")

\* Fx0A: if self.key != [0; 16] { for i in 0..15 { if self.key[i] != 0 { Vx = i } } pc += 2 }
\* The loop stops before key 15 and every pressed key overwrites Vx.
AnyKey == \E k \in 0..(NUM_KEYS - 1) : key[k] # 0
RECURSIVE KeyScan(_, _)
KeyScan(k, vx) ==
    IF k = 15 THEN vx
    ELSE KeyScan(k + 1, IF key[k] # 0 THEN k ELSE vx)
\* Fx0A with pc += 2 outside the if.
Op_LD_Vx_K_AlwaysAdvances ==
    SetRegs([v EXCEPT ![x] = KeyScan(0, v[x])], "LD Vx, K")
Op_LD_Vx_K ==
    IF AnyKey
    THEN SetRegs([v EXCEPT ![x] = KeyScan(0, v[x])], "LD Vx, K")
    ELSE /\ printed' = "nothing"
         /\ UNCHANGED <<memory, v, i, pc, gfx, delay_timer, sound_timer, stack,
                        sp, key, draw_flag, status>>

\* Fx15
Op_LD_DT_Vx ==
    /\ delay_timer' = v[x]
    /\ pc' = pc + 2
    /\ printed' = "LD DT, Vx"
    /\ UNCHANGED <<memory, v, i, gfx, sound_timer, stack, sp, key, draw_flag, status>>

\* Fx18
Op_LD_ST_Vx ==
    /\ sound_timer' = v[x]
    /\ pc' = pc + 2
    /\ printed' = "LD ST, Vx"
    /\ UNCHANGED <<memory, v, i, gfx, delay_timer, stack, sp, key, draw_flag, status>>

\* Fx1E: self.i += Vx as u16, a plain u16 addition
Op_ADD_I ==
    IF i + v[x] > 65535 /\ overflow_checks
    THEN /\ status' = "panicked"
         /\ printed' = "panic"
         /\ UNCHANGED <<memory, v, i, pc, gfx, delay_timer, sound_timer, stack,
                        sp, key, draw_flag>>
    ELSE /\ i' = (i + v[x]) % 65536
         /\ pc' = pc + 2
         /\ printed' = "ADD I, Vx"
         /\ UNCHANGED <<memory, v, gfx, delay_timer, sound_timer, stack, sp, key,
                        draw_flag, status>>

\* Fx29 with glyphs taken to be 4 bytes apart.
Op_LD_F_StrideFour ==
    /\ i' = v[x] * 4
    /\ pc' = pc + 2
    /\ printed' = "LD F, Vx"
    /\ UNCHANGED <<memory, v, gfx, delay_timer, sound_timer, stack, sp, key,
                   draw_flag, status>>
\* Fx29
Op_LD_F ==
    /\ i' = v[x] * 5
    /\ pc' = pc + 2
    /\ printed' = "LD F, Vx"
    /\ UNCHANGED <<memory, v, gfx, delay_timer, sound_timer, stack, sp, key,
                   draw_flag, status>>

\* Writes of a sequence of bytes to memory[i], memory[i + 1], ... in order;
\* the first address outside memory panics and the earlier writes stay.
StoreBytes(bytes) == MemStoreAll(memory, i, bytes)
StoreInBounds(count) == count = 0 \/ i + count - 1 < MEM_SIZE

StoreOp(bytes, mnemonic) ==
    /\ memory' = StoreBytes(bytes)
    /\ IF StoreInBounds(Len(bytes))
       THEN /\ pc' = pc + 2
            /\ printed' = mnemonic
            /\ UNCHANGED status
       ELSE /\ status' = "panicked"
            /\ printed' = "panic"
            /\ UNCHANGED pc
    /\ UNCHANGED <<v, i, gfx, delay_timer, sound_timer, stack, sp, key, draw_flag>>

\* Fx33: Vx / 100, (Vx / 10) % 10, (Vx % 100) % 10
BcdBytes_TensNotReduced(b) == <<b \div 100, b \div 10, b % 10>>
BcdBytes(b) == <<b \div 100, (b \div 10) % 10, (b % 100) % 10>>
Op_LD_B == StoreOp(BcdBytes(v[x]), "LD B, Vx")

\* Fx55: for i in 0..x { memory[I + i] = V[i] }  (x itself is excluded)
RegCount == x
Op_LD_I_Vx == StoreOp([j \in 1..RegCount |-> v[j - 1]], "LD [I], Vx")

\* Fx65: for i in 0..x { V[i] = memory[I + i] }  (x itself is excluded)
Op_LD_Vx_I ==
    /\ v' = [r \in 0..(NUM_REGS - 1) |->
                IF r < RegCount /\ i + r < MEM_SIZE THEN Mem(i + r) ELSE v[r]]
    /\ IF StoreInBounds(RegCount)
       THEN /\ pc' = pc + 2
            /\ printed' = "LD Vx, [I]"
            /\ UNCHANGED status
       ELSE /\ status' = "panicked"
            /\ printed' = "panic"
            /\ UNCHANGED pc
    /\ UNCHANGED <<memory, i, gfx, delay_timer, sound_timer, stack, sp, key, draw_flag>>

\* ---------------------------------------------------------------- dispatch
\* match self.opcode & 0xF000 { ... }; the inner matches are on
\* opcode & 0x000F (families 0, 8, E) and opcode & 0x00FF (family F).
Dispatch ==
    CASE family = 0 ->
            (CASE n = 0  -> Op_CLS
               [] n = 14 -> Op_RET
               [] OTHER  -> Op_UnknownInner)
      [] family = 1 -> Op_JP
      [] family = 2 -> Op_CALL
      [] family = 3 -> Op_SE_byte
      [] family = 4 -> Op_SNE_byte
      [] family = 5 -> Op_SE_reg
      [] family = 6 -> Op_LD_byte
      [] family = 7 -> Op_ADD_byte
      [] family = 8 ->
            (CASE n = 0  -> Op_LD_reg
               [] n = 1  -> Op_OR
               [] n = 2  -> Op_AND
               [] n = 3  -> Op_XOR
               [] n = 4  -> Op_ADD_reg
               [] n = 5  -> Op_SUB
               [] n = 6  -> Op_SHR
               [] n = 7  -> Op_SUBN
               [] n = 14 -> Op_SHL
               [] OTHER  -> Op_UnknownInner)
      [] family = 9  -> Op_SNE_reg
      [] family = 10 -> Op_LD_I
      [] family = 11 -> Op_JP_V0
      [] family = 12 -> Op_RND
      [] family = 13 -> Op_DRW
      [] family = 14 ->
            (CASE n = 14 -> Op_SKP
               [] n = 1  -> Op_SKNP
               [] OTHER  -> Op_UnknownInner)
      [] family = 15 ->
            (CASE kk = 7   -> Op_LD_Vx_DT
               [] kk = 10  -> Op_LD_Vx_K
               [] kk = 21  -> Op_LD_DT_Vx
               [] kk = 24  -> Op_LD_ST_Vx
               [] kk = 30  -> Op_ADD_I
               [] kk = 41  -> Op_LD_F
               [] kk = 51  -> Op_LD_B
               [] kk = 85  -> Op_LD_I_Vx
               [] kk = 101 -> Op_LD_Vx_I
               [] OTHER    -> Op_UnknownInner)

IsCall == FetchInBounds /\ family = 2
IsRet  == FetchInBounds /\ family = 0 /\ n = 14

\* The CALLs not yet returned from, after the cycle about to run.
Pending ==
    IF IsCall /\ status' = "running" THEN Append(calls, pc)
    ELSE IF IsRet /\ status' = "running" /\ calls # <<>>
    THEN SubSeq(calls, 1, Len(calls) - 1)
    ELSE calls

\* One call of emulate_cycle by the event loop of main.
emulate_cycle ==
    /\ phase = "loaded"
    /\ status = "running"
    /\ nCalls + nRets < MaxStackOps
    /\ before' = Snapshot
    /\ IF FetchInBounds
       THEN /\ opcode' = get_opcode
            /\ Dispatch
       ELSE /\ status' = "panicked"
            /\ printed' = "panic"
            /\ UNCHANGED chip
    /\ returned' = IF status' = "running" THEN "unit" ELSE "none"
    /\ nCalls' = IF IsCall /\ status' = "running" THEN nCalls + 1 ELSE nCalls
    /\ nRets' = IF IsRet /\ status' = "running" THEN nRets + 1 ELSE nRets
    /\ calls' = Pending
    /\ UNCHANGED <<phase, overflow_checks, suite, frame>>

\* ------------------------------------------------- main.rs's own Chip8
\* main.rs declares a Chip8 of its own, with the same fields, initialize,
\* load_fontset and load_program, and an emulate_cycle of its own: the one
\* main's event loop calls when the crate is built from main.rs alone.  Its
\* match is given as the record of the fields after it (status = "panicked"
\* where it panics, with the writes made before), so that the timer update
\* that follows the match can be applied to it.
Fields ==
    [memory |-> memory, v |-> v, i |-> i, pc |-> pc, gfx |-> gfx,
     delay_timer |-> delay_timer, sound_timer |-> sound_timer,
     stack |-> stack, sp |-> sp, draw_flag |-> draw_flag, status |-> status]

main_match(rnd) ==
    LET c == Fields
        panic(d) == [d EXCEPT !.status = "panicked"]
        next(d) == [d EXCEPT !.pc = pc + 2]
        skip(cond) == [c EXCEPT !.pc = IF cond THEN pc + 4 ELSE pc + 2]
        regs(newv) == next([c EXCEPT !.v = newv])
        \* v[x] += ..., v[x] -= ...: plain u8 arithmetic on the registers v1
        plain(v1, result) ==
            IF result \notin Byte /\ overflow_checks
            THEN panic([c EXCEPT !.v = v1])
            ELSE regs([v1 EXCEPT ![x] = result % 256])
        stored(bytes) ==
            IF StoreInBounds(Len(bytes))
            THEN next([c EXCEPT !.memory = StoreBytes(bytes)])
            ELSE panic([c EXCEPT !.memory = StoreBytes(bytes)])
        vf0  == [v EXCEPT ![15] = 0]
        vfgt == [v EXCEPT ![15] = SubFlag(v[x], v[y])]
        drw  == DrwResult
    IN
    CASE family = 0 ->
            (CASE n = 0 -> next([c EXCEPT !.gfx = ClearGfx, !.draw_flag = TRUE])
               \* 00EE: self.pc = self.stack[self.sp]; self.sp -= 1
               [] n = 14 ->
                    IF sp \notin 0..(STACK_SIZE - 1) THEN panic(c)
                    ELSE IF sp = 0
                    THEN (IF overflow_checks
                          THEN panic([c EXCEPT !.pc = stack[sp]])
                          ELSE [c EXCEPT !.pc = stack[sp], !.sp = USIZE_MAX])
                    ELSE [c EXCEPT !.pc = stack[sp], !.sp = sp - 1]
               [] OTHER -> c)
      [] family = 1 -> [c EXCEPT !.pc = nnn]
      \* 2nnn: self.stack[self.sp] = self.pc; self.sp += 1; self.pc = nnn
      [] family = 2 ->
            IF sp \notin 0..(STACK_SIZE - 1) THEN panic(c)
            ELSE [c EXCEPT !.stack = [stack EXCEPT ![sp] = pc],
                           !.sp = sp + 1, !.pc = nnn]
      [] family = 3 -> skip(v[x] = kk)
      [] family = 4 -> skip(v[x] # kk)
      [] family = 5 -> skip(v[x] = v[y])
      [] family = 6 -> regs([v EXCEPT ![x] = kk])
      \* 7xkk: self.v[x] += kk
      [] family = 7 -> plain(v, v[x] + kk)
      [] family = 8 ->
            (CASE n = 0 -> regs([v EXCEPT ![x] = v[y]])
               [] n = 1 -> regs([v EXCEPT ![x] = BitOr(v[x], v[y])])
               [] n = 2 -> regs([v EXCEPT ![x] = BitAnd(v[x], v[y])])
               [] n = 3 -> regs([v EXCEPT ![x] = BitXor(v[x], v[y])])
               \* 8xy4: VF = (Vx > 255), never true of a u8; then Vx += Vy
               [] n = 4 -> plain(vf0, vf0[x] + vf0[y])
               \* 8xy5: VF = (Vx > Vy); then Vx -= Vy
               [] n = 5 -> plain(vfgt, vfgt[x] - vfgt[y])
               [] n = 6 -> regs(ShrRegs)
               [] n = 7 -> plain(SubnFlagged, SubnFlagged[y] - SubnFlagged[x])
               [] n = 14 -> regs(ShlRegs)
               [] OTHER -> c)
      \* 9xy0: the register numbers x and y are compared, not the registers
      [] family = 9 -> skip(x # y)
      [] family = 10 -> next([c EXCEPT !.i = nnn])
      \* Bnnn: self.opcode & 0x0FFF + (self.v[0] as u16), + before &
      [] family = 11 -> [c EXCEPT !.pc = BitAnd(get_opcode, 4095 + v[0])]
      \* Cxkk: pc is not advanced
      [] family = 12 -> [c EXCEPT !.v = [v EXCEPT ![x] = BitAnd(rnd, kk)]]
      [] family = 13 ->
            LET d == [c EXCEPT !.gfx = drw.gfx, !.v = [v EXCEPT ![15] = drw.vf]]
            IN  IF drw.ok THEN next([d EXCEPT !.draw_flag = TRUE]) ELSE panic(d)
      [] family = 14 ->
            (CASE n \in {1, 14} ->
                    IF v[x] >= NUM_KEYS THEN panic(c)
                    ELSE skip((key[v[x]] = 1) <=> (n = 14))
               [] OTHER -> c)
      [] family = 15 ->
            (CASE kk = 7   -> regs([v EXCEPT ![x] = delay_timer])
               [] kk = 10  -> IF AnyKey
                              THEN regs([v EXCEPT ![x] = KeyScan(0, v[x])])
                              ELSE c
               [] kk = 21  -> next([c EXCEPT !.delay_timer = v[x]])
               [] kk = 24  -> next([c EXCEPT !.sound_timer = v[x]])
               [] kk = 30  -> IF i + v[x] > 65535 /\ overflow_checks
                              THEN panic(c)
                              ELSE next([c EXCEPT !.i = (i + v[x]) % 65536])
               [] kk = 41  -> next([c EXCEPT !.i = v[x] * 5])
               [] kk = 51  -> stored(BcdBytes(v[x]))
               [] kk = 85  -> stored([j \in 1..RegCount |-> v[j - 1]])
               [] kk = 101 ->
                    LET d == [c EXCEPT !.v = [r \in 0..(NUM_REGS - 1) |->
                                  IF r < RegCount /\ i + r < MEM_SIZE
                                  THEN Mem(i + r) ELSE v[r]]]
                    IN  IF StoreInBounds(RegCount) THEN next(d) ELSE panic(d)
               [] OTHER    -> c)

\* // update timers, after the match of every cycle that did not panic:
\* if self.delay_timer > 0 { self.delay_timer = self.delay_timer - 1; }
\* if self.sound_timer > 0 { println!("BEEP"); self.sound_timer = self.sound_timer - 1; }
main_update_timers(c) ==
    IF c.status = "panicked" THEN c
    ELSE [c EXCEPT !.delay_timer = IF @ > 0 THEN @ - 1 ELSE @,
                   !.sound_timer = IF @ > 0 THEN @ - 1 ELSE @]

\* What main.rs's cycle printed last: "BEEP" if the sound timer was running,
\* else the fallback's line, else the fetch line "pc: opcode".
main_printed(c) ==
    LET fallback ==
            \/ family = 0 /\ n \notin {0, 14}
            \/ family = 8 /\ n \notin (0..7) \cup {14}
            \/ family = 14 /\ n \notin {1, 14}
            \/ family = 15 /\ kk \notin {7, 10, 21, 24, 30, 41, 51, 85, 101}
    IN  IF c.status = "panicked" THEN "panic"
        ELSE IF c.sound_timer > 0 THEN "BEEP"
        ELSE IF fallback THEN "Unknown opcode"
        ELSE "fetch"

main_emulate_cycle ==
    /\ phase = "loaded"
    /\ status = "running"
    /\ nCalls + nRets < MaxStackOps
    /\ before' = Snapshot
    /\ IF FetchInBounds
       THEN /\ opcode' = get_opcode
            /\ \E rnd \in (IF family = 12 THEN Byte ELSE {0}) :
                 LET m == main_match(rnd)
                     c == main_update_timers(m)
                 IN  /\ memory' = c.memory
                     /\ v' = c.v
                     /\ i' = c.i
                     /\ pc' = c.pc
                     /\ gfx' = c.gfx
                     /\ delay_timer' = c.delay_timer
                     /\ sound_timer' = c.sound_timer
                     /\ stack' = c.stack
                     /\ sp' = c.sp
                     /\ draw_flag' = c.draw_flag
                     /\ status' = c.status
                     /\ printed' = main_printed(m)
            /\ UNCHANGED key
       ELSE /\ status' = "panicked"
            /\ printed' = "panic"
            /\ UNCHANGED chip
    /\ returned' = IF status' = "running" THEN "unit" ELSE "none"
    /\ nCalls' = IF IsCall /\ status' = "running" THEN nCalls + 1 ELSE nCalls
    /\ nRets' = IF IsRet /\ status' = "running" THEN nRets + 1 ELSE nRets
    /\ calls' = Pending
    /\ UNCHANGED <<phase, overflow_checks, suite, frame>>

\* ------------------------------------------------------- program families
\* Instruction words.
W_RET        == 238
W_JP(a)      == 4096 + a
W_CALL(a)    == 2 * 4096 + a
W_LD(r, b)   == 6 * 4096 + r * 256 + b
W_SKIP(f, r, b) == f * 4096 + r * 256 + b
W_ALU(r, q, op) == 8 * 4096 + r * 256 + q * 16 + op
W_LD_I(a)    == 10 * 4096 + a
W_JP_V0(a)   == 11 * 4096 + a
W_DRW(r, q, rows) == 13 * 4096 + r * 256 + q * 16 + rows

\* Control flow: every program of MaxCtlLen words over RET, a CALL of any
\* word of the program and a jump to the closing word, which jumps to itself.
CtlEnd   == PROG_START + 2 * MaxCtlLen
CtlWords ==
    {W_RET, W_JP(CtlEnd)}
    \cup { W_CALL(PROG_START + 2 * k) : k \in 0..(MaxCtlLen - 1) }
CtlImages ==
    { Asm(f \o <<W_JP(CtlEnd)>>) : f \in [1..MaxCtlLen -> CtlWords] }

\* Words the dispatch matches no instruction for.
UnknownWords == {1, 225, 32776, 32783, 57344, 57503, 61440, 61695}
UnknownImages == { Asm(<<w, W_JP(PROG_START + 2)>>) : w \in UnknownWords }

\* Jumps towards the end of memory, and the empty image (memory stays zero).
JumpImages ==
    { Asm(<<W_JP(a)>>) : a \in {4090, 4094, 4095} }
    \cup { Asm(<<W_LD(0, b), W_JP_V0(a)>>) : b \in {0, 2, 255}, a \in {4092, 4095} }
    \cup { <<>> }

\* Sprites: two registers are loaded, I is pointed at a glyph (0, 5), the
\* program text (0x200), zeroed memory (0x300) or the end of memory (0xFFE),
\* and the sprite is drawn twice in a row ...
W_F(r, b)    == 15 * 4096 + r * 256 + b
W_ADD(r, b)  == 7 * 4096 + r * 256 + b
DrawRegs  == {<<0, 1>>, <<15, 1>>, <<0, 15>>, <<2, 2>>}
DrawCols  == {0, 61, 255}
DrawRows  == {0, 30, 255}
DrawSizes == {0, 1, 5, 15}
DrawAddrs == {0, 512, 768, 4094}
DrawTwiceImages ==
    { Asm(<<W_LD(rq[1], a), W_LD(rq[2], b), W_LD_I(addr),
            W_DRW(rq[1], rq[2], rows), W_DRW(rq[1], rq[2], rows),
            W_JP(PROG_START + 10)>>) :
        rq \in DrawRegs, a \in DrawCols, b \in DrawRows,
        rows \in DrawSizes, addr \in DrawAddrs }
\* ... or drawn, then another sprite or the same one 4 columns to the right
\* is drawn over it.
DrawOverImages ==
    { Asm(<<W_LD(0, a), W_LD(1, b), W_LD_I(0), W_DRW(0, 1, 5), w,
            W_DRW(0, 1, 5), W_JP(PROG_START + 12)>>) :
        a \in {0, 61}, b \in {0, 30}, w \in {W_LD_I(5), W_LD_I(512), W_ADD(0, 4)} }

\* Register arithmetic: two registers are loaded and one 8xyN is executed.
AluRegs  == {<<0, 1>>, <<1, 0>>, <<15, 1>>, <<1, 15>>, <<2, 2>>}
AluBytes == {0, 1, 3, 5, 15, 16, 127, 128, 254, 255}
AluOps   == {0, 1, 2, 3, 4, 5, 6, 7, 14}
AluImages ==
    { Asm(<<W_LD(rq[1], a), W_LD(rq[2], b), W_ALU(rq[1], rq[2], op),
            W_JP(PROG_START + 6)>>) :
        rq \in AluRegs, a \in AluBytes, b \in AluBytes, op \in AluOps }

\* Skips: two registers are loaded and one skip (3xkk, 4xkk, 5xy0 or 9xy0) is
\* executed; the two words after it are jumps to themselves.
SkipBytes == {0, 1, 15, 16, 17, 240, 255}
SkipImages ==
    { Asm(<<W_LD(rq[1], a), W_LD(rq[2], b),
            W_SKIP(f, rq[1], IF f \in {3, 4} THEN b ELSE rq[2] * 16),
            W_JP(PROG_START + 6), W_JP(PROG_START + 8)>>) :
        rq \in AluRegs, a \in SkipBytes, b \in SkipBytes, f \in {3, 4, 5, 9} }

\* Key wait: one Fx0A, then a jump to itself.
KeyImages ==
    { Asm(<<W_F(r, 10), W_JP(PROG_START + 2)>>) : r \in {0, 5, 15} }

\* Key skips: Vx is loaded with a key number and one Ex9E (158) or ExA1 (161)
\* is executed; the two words after it are jumps to themselves.
KeySkipImages ==
    { Asm(<<W_LD(r, k), W_SKIP(14, r, b), W_JP(PROG_START + 4),
            W_JP(PROG_START + 6)>>) :
        r \in {0, 15}, k \in {0, 1, 7, 15}, b \in {158, 161} }

\* Memory blocks: V0..V2 and I are loaded and one Fx55 (85) or Fx65 (101) is
\* executed; or Vx and I are loaded and one Fx33 is executed.
MemRegs  == {<<17, 34, 51>>, <<0, 255, 1>>}
MemAddrs == {0, 768, 4093, 4094, 4095}
MemImages ==
    { Asm(<<W_LD(0, abc[1]), W_LD(1, abc[2]), W_LD(2, abc[3]), W_LD_I(a),
            W_F(r, op), W_JP(PROG_START + 10)>>) :
        abc \in MemRegs, a \in MemAddrs, r \in {0, 1, 2, 15}, op \in {85, 101} }
BcdImages ==
    { Asm(<<W_LD(r, b), W_LD_I(a), W_F(r, 51), W_JP(PROG_START + 6)>>) :
        r \in {0, 15}, b \in Byte, a \in MemAddrs }

\* Timers: V0 is loaded and written to a timer (Fx15 is 21, Fx18 is 24), the
\* delay timer is read back into V1, and one more instruction is executed.
TimerBytes == {0, 1, 2, 3, 255}
TimerTail ==
    {224, 32776, W_LD_I(0), W_ALU(1, 0, 4), W_SKIP(3, 0, 0), W_DRW(0, 0, 1),
     W_F(0, 30), W_F(0, 41), W_F(2, 7), W_F(0, 21), W_F(1, 24)}
TimerImages ==
    { Asm(<<W_LD(0, b), W_F(0, t), W_F(1, 7), w, W_JP(PROG_START + 8)>>) :
        b \in TimerBytes, t \in {21, 24}, w \in TimerTail }

\* Display: glyph 0 is drawn at (0, 0), then one more word is executed.
DisplayWords == {0, 16, 224, 225, 560, W_LD(1, 1), W_DRW(1, 1, 1)}
DisplayImages ==
    { Asm(<<W_LD_I(0), W_DRW(0, 0, 5), w, W_JP(PROG_START + 6)>>) :
        w \in DisplayWords }

\* Loading: images of 0, 1, 3584, 3585 and 3600 bytes (a jump to itself, then
\* bytes that are not 0), and the programs that point I at a glyph with Fx29.
LoadLengths == {0, 1, 3584, 3585, 3600}
LoadImages ==
    { [k \in 1..len |-> IF k = 1 THEN 18 ELSE IF k = 2 THEN 0 ELSE 1 + (k % 255)] :
        len \in LoadLengths }
FontImages ==
    { Asm(<<W_LD(r, d), W_F(r, 41), W_JP(PROG_START + 4)>>) :
        r \in {0, 15}, d \in 0..(NUM_KEYS - 1) }

\* Register loads and immediate adds: VF (or V1) holds 9, then Vr is loaded,
\* and for the adds one 7xkk on Vr is executed.
AddImages ==
    { Asm(<<W_LD(15, 9), W_LD(r, a), W_ADD(r, b), W_JP(PROG_START + 6)>>) :
        r \in {0, 7, 15}, a \in Byte, b \in AluBytes }
LdImages ==
    { Asm(<<W_LD(1, 9), W_LD(r, b), W_JP(PROG_START + 4)>>) :
        r \in 0..(NUM_REGS - 1), b \in Byte }

\* Subroutines nested to a given depth: 0x200 calls level 1 and then spins at
\* 0x202; level j (at 0x204 + 4 * (j - 1)) calls level j + 1 and returns; the
\* innermost level only returns.
NestLevel(j) == PROG_START + 4 * j
NestImage(depth) ==
    Asm(<<W_CALL(NestLevel(1)), W_JP(PROG_START + 2)>>
        \o [ m \in 1..(2 * depth - 1) |->
               IF m % 2 = 1 /\ m < 2 * depth - 1
               THEN W_CALL(NestLevel((m + 1) \div 2 + 1))
               ELSE W_RET ])
NestImages == { NestImage(depth) : depth \in 1..STACK_SIZE }

Images(s) ==
    CASE s = "control" -> CtlImages \cup UnknownImages \cup JumpImages
                          \cup NestImages
      [] s = "draw"    -> DrawTwiceImages \cup DrawOverImages
      [] s = "alu"     -> AluImages
      [] s = "skip"    -> SkipImages
      [] s = "keys"    -> KeyImages \cup KeySkipImages
      [] s = "mem"     -> MemImages \cup BcdImages
      [] s = "timer"   -> TimerImages
      [] s = "display" -> DisplayImages
      [] s = "load"    -> LoadImages \cup FontImages
      [] s = "regs"    -> AddImages \cup LdImages

\* Keys of the 16-key pad the user touches during the run.
Keyboard(s) ==
    CASE s = "control" -> {0}
      [] s = "draw"    -> {0}
      [] s = "alu"     -> {0}
      [] s = "skip"    -> {0}
      [] s = "keys"    -> {0, 1, 15}
      [] s = "mem"     -> {0}
      [] s = "timer"   -> {0}
      [] s = "display" -> {0}
      [] s = "load"    -> {0}
      [] s = "regs"    -> {0}

\* load_program, as main calls it (the Result is dropped: let _ = ...).  A
\* failed fs::read returns Err before the loop and leaves memory as the empty
\* image does.
load_program ==
    /\ phase = "fontset"
    /\ \E data \in Images(suite) : load_program_data(data)
    /\ phase' = "loaded"
    /\ UNCHANGED <<opcode, v, i, pc, gfx, delay_timer, sound_timer, stack, sp,
                   key, draw_flag>>
    /\ UNCHANGED <<overflow_checks, suite, hist>>

\* ------------------------------------------------------------- host input
\* main: if input.key_pressed(..) { key[k] = 1 }  if input.key_released(..) { key[k] = 0 }
key_pressed ==
    /\ phase = "loaded" /\ status = "running"
    /\ \E k \in Keyboard(suite) :
          /\ key[k] = 0
          /\ key' = [key EXCEPT ![k] = 1]
    /\ UNCHANGED <<opcode, memory, v, i, pc, gfx, delay_timer, sound_timer,
                   stack, sp, draw_flag>>
    /\ UNCHANGED <<status, phase, overflow_checks, suite, hist>>

key_released ==
    /\ phase = "loaded" /\ status = "running"
    /\ \E k \in Keyboard(suite) :
          /\ key[k] = 1
          /\ key' = [key EXCEPT ![k] = 0]
    /\ UNCHANGED <<opcode, memory, v, i, pc, gfx, delay_timer, sound_timer,
                   stack, sp, draw_flag>>
    /\ UNCHANGED <<status, phase, overflow_checks, suite, hist>>

\* ----------------------------------------------------------- host display
\* draw: pixel number px of the frame is white when gfx[px % WIDTH][px / WIDTH]
\* is not 0; the frame has WIDTH * HEIGHT pixels.
draw ==
    { <<px % WIDTH, px \div WIDTH>> :
        px \in { q \in 0..(WIDTH * HEIGHT - 1) :
                    Pixel(gfx, q % WIDTH, q \div WIDTH) # 0 } }

\* main, on WindowEvent::RedrawRequested:
\* if myChip8.draw_flag { myChip8.draw(pixels.frame_mut()); pixels.render() }
redraw_requested ==
    /\ phase = "loaded" /\ status = "running"
    /\ frame' = IF draw_flag THEN draw ELSE frame
    /\ UNCHANGED <<chip, status, phase, overflow_checks, suite, returned,
                   printed, before, nCalls, nRets, calls>>

\* main: if let Some(size) = input.window_resized() { myChip8.draw_flag = true; .. }
window_resized ==
    /\ phase = "loaded" /\ status = "running"
    /\ draw_flag' = TRUE
    /\ UNCHANGED <<opcode, memory, v, i, pc, gfx, delay_timer, sound_timer,
                   stack, sp, key>>
    /\ UNCHANGED <<status, phase, overflow_checks, suite, hist>>

\* ---------------------------------------------------------- specification
InitWith(s) ==
    /\ initialize
    /\ status = "running"
    /\ phase = "initialized"
    /\ overflow_checks \in BOOLEAN
    /\ suite = s
    /\ returned = "none"
    /\ printed = "nothing"
    /\ before = Snapshot
    /\ nCalls = 0
    /\ nRets = 0
    /\ calls = <<>>
    /\ frame = ClearGfx

Init == InitWith("control")

Next ==
    \/ load_fontset
    \/ load_program
    \/ emulate_cycle
    \/ key_pressed
    \/ key_released

Spec == Init /\ [][Next]_vars

\* The same machine with the sprite images, and with the arithmetic images.
InitDraw == InitWith("draw")
SpecDraw == InitDraw /\ [][Next]_vars
InitAlu  == InitWith("alu")
SpecAlu  == InitAlu /\ [][Next]_vars
\* The same machine with the images of the skips, and with the key wait and
\* a user at the keys 0, 1 and F.
SpecSkip == InitWith("skip") /\ [][Next]_vars
SpecKeys == InitWith("keys") /\ [][Next]_vars
\* The same machine with the images of the memory-block instructions.
SpecMem  == InitWith("mem") /\ [][Next]_vars
\* The same machine with the images loaded whole and the glyph programs.
SpecLoad == InitWith("load") /\ [][Next]_vars
\* The same machine with the register loads and immediate adds.
SpecRegs == InitWith("regs") /\ [][Next]_vars

\* The machine with the display images and the window events of the host.
NextHost ==
    \/ Next
    \/ redraw_requested
    \/ window_resized

SpecHost == InitWith("display") /\ [][NextHost]_vars

\* The crate as built from main.rs alone: main's event loop drives main.rs's
\* own Chip8, here with the timer images.
NextMain ==
    \/ load_fontset
    \/ load_program
    \/ main_emulate_cycle
    \/ key_pressed
    \/ key_released

SpecMain == InitWith("timer") /\ [][NextMain]_vars

\* ==================================================================
\* Properties
\* ==================================================================
Running == phase = "loaded" /\ status = "running"

\* The rows of the specification's opcode table.
InOpcodeTable(w) ==
    LET f  == w \div 4096
        lo == w % 16
        b  == w % 256
    IN  CASE f = 0 -> w = 224 \/ w = 238
          [] f \in {5, 9} -> lo = 0
          [] f = 8 -> lo \in (0..7) \cup {14}
          [] f = 14 -> b \in {158, 161}
          [] f = 15 -> b \in {7, 10, 21, 24, 30, 41, 51, 85, 101}
          [] OTHER -> TRUE

\* C1: a CALL executed with 16 return addresses on the stack returns the
\* fault StackOverflow to the caller of the step, the machine keeps running
\* and the stack pointer is still 16.
C1_OverflowIsReturned ==
    [][ (emulate_cycle /\ IsCall /\ sp = STACK_SIZE)
        => (status' = "running" /\ returned' = "StackOverflow" /\ sp' = STACK_SIZE) ]_vars

\* C2: a RET executed with an empty stack returns a stack-underflow fault;
\* the step does not crash and the stack pointer stays 0.
C2_UnderflowIsReturned ==
    [][ (emulate_cycle /\ IsRet /\ sp = 0)
        => (status' = "running" /\ returned' = "StackUnderflow" /\ sp' = 0) ]_vars

\* C3: no step crashes: every array access of a step is in bounds and no
\* arithmetic traps, so the machine is never in the panicked state.
C3_NeverCrashes == status # "panicked"

\* C4: a step that fetches a word matching no row of the opcode table
\* advances the program counter by exactly 2.
C4_UnknownAdvances ==
    [][ (emulate_cycle /\ FetchInBounds /\ ~InOpcodeTable(get_opcode))
        => pc' = pc + 2 ]_vars

\* C5: whenever a fetch is about to happen the program counter is within
\* [0, 4094].
C5_FetchInRange == Running => pc \in 0..(MEM_SIZE - 2)

\* C6: the stack pointer is within [0, 16] in every reachable state and
\* equals the number of CALLs executed minus the number of RETs executed.
C6_StackPointerRange == sp \in 0..STACK_SIZE /\ sp = nCalls - nRets

\* C7: when the instruction executed last was a CALL at address a and the
\* step now executes a RET, the program counter afterwards is a + 2 and the
\* stack pointer is what it was before the CALL.
C7_CallRetRoundTrip ==
    [][ (emulate_cycle /\ returned = "unit" /\ opcode \div 4096 = 2
            /\ IsRet /\ status' = "running")
        => (pc' = before.pc + 2 /\ sp' = before.sp) ]_vars

\* C7 witness: a RET has just completed right after a CALL, landing on the
\* address the CALL pushed.
C7_Witness ==
    /\ Running /\ printed = "RET"
    /\ before.opcode \div 4096 = 2
    /\ pc = stack[sp]
    /\ pc > PROG_START

\* The sprite bit the instruction about to be executed (a Dxyn) puts on cell
\* (c, r), with Vx and Vy as they are when it is fetched: the cell is bit b of
\* row w of the sprite when c = (Vx + b) mod 64 and r = (Vy + w) mod 32.
SpriteBitAt(c, r) ==
    LET b == (c - v[x]) % WIDTH
        w == (r - v[y]) % HEIGHT
    IN  IF b < 8 /\ w < n THEN Shr(Mem(i + w), 7 - b) % 2 ELSE 0

Cells == (0..(WIDTH - 1)) \X (0..(HEIGHT - 1))

\* C8: a completed Dxyn XORs the sprite onto the display at (Vx, Vy) as
\* fetched, wrapping on both axes, leaves every other cell unchanged, sets VF
\* to 1 exactly when a cell that was on is turned off, and sets the redraw
\* flag; for every x and y, 0xF included.
C8_DrawIsXorAtFetchedPosition ==
    [][ (emulate_cycle /\ FetchInBounds /\ family = 13 /\ status' = "running")
        => /\ \A cell \in Cells :
                Pixel(gfx', cell[1], cell[2]) =
                    (Pixel(gfx, cell[1], cell[2]) + SpriteBitAt(cell[1], cell[2])) % 2
           /\ v'[15] = (IF \E cell \in Cells : /\ Pixel(gfx, cell[1], cell[2]) = 1
                                               /\ Pixel(gfx', cell[1], cell[2]) = 0
                        THEN 1 ELSE 0)
           /\ draw_flag' = TRUE ]_vars

\* The sprite of the Dxyn about to be executed has at least one set bit.
SpriteHasBit == \E w \in 0..(n - 1) : i + w < MEM_SIZE /\ Mem(i + w) # 0

\* C9: when the instruction executed last was a Dxyn with x, y other than
\* 0xF and the step executes the same word again, the display afterwards is
\* what it was before the first draw; if that was all-off and the sprite has
\* a set bit, the first draw left VF = 0 and the second sets VF = 1.
C9_DrawTwiceRestores ==
    [][ (emulate_cycle /\ returned = "unit" /\ printed = "DRW Vx, Vy, nibble"
            /\ FetchInBounds /\ get_opcode = opcode /\ family = 13
            /\ x # 15 /\ y # 15 /\ status' = "running")
        => /\ gfx' = before.gfx
           /\ (before.gfx = ClearGfx /\ SpriteHasBit)
                 => (gfx' = ClearGfx /\ v[15] = 0 /\ v'[15] = 1) ]_vars

\* C9 witness: the second of two identical draws has completed; the first
\* had switched pixels on, the display is all-off again and VF is 1.
C9_Witness ==
    /\ Running /\ printed = "DRW Vx, Vy, nibble"
    /\ before.opcode = opcode
    /\ opcode \div 4096 = 13 /\ opcode % 16 = 5
    /\ before.gfx # ClearGfx
    /\ gfx = ClearGfx
    /\ v[15] = 1

\* C10: 8xy5 with x other than 0xF leaves VF = 1 if the old Vx >= the old Vy
\* (Vx = Vy included) and VF = 0 otherwise, and Vx = (old Vx - old Vy) mod 256.
C10_SubFlagIsNotBorrow ==
    [][ (emulate_cycle /\ FetchInBounds /\ family = 8 /\ n = 5 /\ x # 15)
        => /\ v'[15] = (IF v[x] >= v[y] THEN 1 ELSE 0)
           /\ v'[x] = (v[x] - v[y]) % 256 ]_vars

\* C11: 8xy7 with x other than 0xF completes for all register values (the
\* subtraction wraps, it never traps) and leaves VF = 1 if the old Vy >= the
\* old Vx and VF = 0 otherwise, and Vx = (old Vy - old Vx) mod 256.
C11_SubnWrapsAndFlags ==
    [][ (emulate_cycle /\ FetchInBounds /\ family = 8 /\ n = 7 /\ x # 15)
        => /\ status' = "running"
           /\ v'[15] = (IF v[y] >= v[x] THEN 1 ELSE 0)
           /\ v'[x] = (v[y] - v[x]) % 256 ]_vars

\* C12: 8xy4 leaves VF = 1 if old Vx + old Vy, not truncated, exceeds 255 and
\* VF = 0 otherwise, for every x and y; for x other than 0xF it leaves
\* Vx = (old Vx + old Vy) mod 256.
C12_AddCarry ==
    [][ (emulate_cycle /\ FetchInBounds /\ family = 8 /\ n = 4)
        => /\ v'[15] = (IF v[x] + v[y] > 255 THEN 1 ELSE 0)
           /\ (x # 15 => v'[x] = (v[x] + v[y]) % 256) ]_vars

\* C12 witness: 8014 has completed on V0 = 0xFF, V1 = 0x01 and left V0 = 0
\* and VF = 1.
C12_Witness ==
    /\ Running /\ printed = "ADD Vx, Vy"
    /\ opcode = W_ALU(0, 1, 4)
    /\ before.v[0] = 255 /\ before.v[1] = 1
    /\ v[0] = 0 /\ v[15] = 1

\* The flag the instruction about to be executed (8xy4, 5, 6, 7 or E) owes
\* to VF, from the operand values it is fetched with.
ArithFlag ==
    CASE n = 4  -> IF v[x] + v[y] > 255 THEN 1 ELSE 0
      [] n = 5  -> IF v[x] >= v[y] THEN 1 ELSE 0
      [] n = 6  -> v[x] % 2
      [] n = 7  -> IF v[y] >= v[x] THEN 1 ELSE 0
      [] n = 14 -> v[x] \div 128

\* C13: after any of 8xy4, 8xy5, 8xy6, 8xy7, 8xyE, for every x (0xF included),
\* VF holds the instruction's flag computed from the operand values before
\* the instruction, not the arithmetic or shift result.
C13_FlagWrittenLast ==
    [][ (emulate_cycle /\ FetchInBounds /\ family = 8 /\ n \in {4, 5, 6, 7, 14})
        => v'[15] = ArithFlag ]_vars

\* C14: 9xy0 advances the program counter by 4 if Vx # Vy, comparing the
\* full 8-bit register values, and by 2 if Vx = Vy, and changes no other
\* machine state.
C14_SneComparesRegisters ==
    [][ (emulate_cycle /\ FetchInBounds /\ family = 9 /\ n = 0)
        => /\ pc' = (IF v[x] # v[y] THEN pc + 4 ELSE pc + 2)
           /\ UNCHANGED <<memory, v, i, gfx, delay_timer, sound_timer, stack,
                          sp, key, draw_flag, status>> ]_vars

\* The keys the host has marked pressed.
Pressed == { k \in 0..(NUM_KEYS - 1) : key[k] # 0 }

\* C15: Fx0A executed with at least one key pressed stores the lowest-indexed
\* pressed key into Vx and advances the program counter by 2, for every
\* non-empty set of pressed keys.
C15_KeyWaitTakesLowestKey ==
    [][ (emulate_cycle /\ FetchInBounds /\ family = 15 /\ kk = 10
            /\ Pressed # {})
        => /\ v'[x] = CHOOSE k \in Pressed : \A other \in Pressed : k <= other
           /\ pc' = pc + 2 ]_vars

\* C16: Fx0A executed with no key pressed completes and leaves the program
\* counter, registers, memory, index, stack, timers and display unchanged, so
\* the next step fetches the same Fx0A; executed with a key pressed it
\* advances the program counter.
C16_KeyWaitNoProgress ==
    [][ (emulate_cycle /\ FetchInBounds /\ family = 15 /\ kk = 10)
        => /\ status' = "running" /\ returned' = "unit"
           /\ Pressed = {}
                => /\ UNCHANGED <<pc, v, memory, i, stack, sp, delay_timer,
                                  sound_timer, gfx>>
                   /\ get_opcode' = get_opcode
           /\ Pressed # {} => pc' = pc + 2 ]_vars

\* C16 witness: an Fx0A step with no key pressed has been followed by a key
\* press and by the Fx0A step that advanced the program counter.
C16_Witness ==
    /\ Running /\ printed = "LD Vx, K"
    /\ before.pc = PROG_START /\ pc = PROG_START + 2
    /\ before.opcode = opcode /\ opcode % 256 = 10
    /\ Pressed # {}

\* C17: Fx55 with I + x inside memory leaves memory[I + j] = Vj for every j
\* in 0..x inclusive, and changes no other memory byte, no register and not
\* the index register.
C17_StoreRegsInclusive ==
    [][ (emulate_cycle /\ FetchInBounds /\ family = 15 /\ kk = 85
            /\ i + x < MEM_SIZE)
        => /\ \A a \in 0..(MEM_SIZE - 1) :
                Mem(a)' = (IF a \in i..(i + x) THEN v[a - i] ELSE Mem(a))
           /\ UNCHANGED <<v, i>> ]_vars

\* C18: Fx65 with I + x inside memory leaves Vj = memory[I + j] for every j
\* in 0..x inclusive, the registers above x unchanged and memory unchanged.
C18_LoadRegsInclusive ==
    [][ (emulate_cycle /\ FetchInBounds /\ family = 15 /\ kk = 101
            /\ i + x < MEM_SIZE)
        => /\ \A r \in 0..(NUM_REGS - 1) :
                v'[r] = (IF r <= x THEN Mem(i + r) ELSE v[r])
           /\ UNCHANGED memory ]_vars

\* C19: Fx33 with I + 2 inside memory leaves in memory[I], memory[I + 1],
\* memory[I + 2] three digits, each in 0..9, with
\* 100 * memory[I] + 10 * memory[I + 1] + memory[I + 2] = Vx, and changes no
\* other memory byte.
C19_BcdDigits ==
    [][ (emulate_cycle /\ FetchInBounds /\ family = 15 /\ kk = 51
            /\ i + 2 < MEM_SIZE)
        => \A a0 \in {i} :
             /\ \A a \in a0..(a0 + 2) : Mem(a)' \in 0..9
             /\ 100 * Mem(a0)' + 10 * Mem(a0 + 1)' + Mem(a0 + 2)' = v[x]
             /\ \A a \in (0..(MEM_SIZE - 1)) \ (a0..(a0 + 2)) : Mem(a)' = Mem(a) ]_vars

\* C19 witness: Fx33 has completed with Vx = 123 and left the digits 1, 2, 3
\* at I, I + 1, I + 2.
C19_Witness ==
    /\ Running /\ printed = "LD B, Vx"
    /\ v[(opcode \div 256) % 16] = 123
    /\ Mem(i) = 1 /\ Mem(i + 1) = 2 /\ Mem(i + 2) = 3

\* C20: a step makes no timer decrement of its own: it changes delay_timer
\* only when the instruction is Fx15 (to Vx) and sound_timer only when the
\* instruction is Fx18 (to Vx); so an Fx07 executed right after an Fx15 reads
\* back the value the Fx15 wrote.
C20_NoTimerDecrementInStep ==
    [][ ((emulate_cycle \/ main_emulate_cycle) /\ FetchInBounds)
        => /\ delay_timer' = (IF family = 15 /\ kk = 21 THEN v[x] ELSE delay_timer)
           /\ sound_timer' = (IF family = 15 /\ kk = 24 THEN v[x] ELSE sound_timer)
           /\ (returned = "unit" /\ opcode \div 4096 = 15 /\ opcode % 256 = 21
                 /\ family = 15 /\ kk = 7)
                => v'[x] = before.v[(opcode \div 256) % 16] ]_vars

\* C21: a step whose fetched word is neither exactly 00E0 nor of the form
\* Dxyn leaves every display cell unchanged.
C21_DisplayOnlyByClsAndDrw ==
    [][ (emulate_cycle /\ FetchInBounds /\ get_opcode # 224 /\ family # 13)
        => gfx' = gfx ]_vars

\* C22: every completed step that executes 00E0 or Dxyn sets draw_flag; the
\* host's redraw, when it draws a frame, clears draw_flag; and a step that
\* executes neither 00E0 nor Dxyn leaves draw_flag as it was.
C22_RedrawHandshake ==
    [][ /\ (emulate_cycle /\ FetchInBounds /\ (get_opcode = 224 \/ family = 13)
               /\ status' = "running")
             => draw_flag' = TRUE
        /\ (redraw_requested /\ draw_flag) => draw_flag' = FALSE
        /\ (emulate_cycle /\ FetchInBounds /\ get_opcode # 224 /\ family # 13)
             => draw_flag' = draw_flag ]_vars

\* C23: load_program with an image longer than 4096 - 512 = 3584 bytes does
\* not crash (the machine keeps running); with an image of at most 3584 bytes
\* it leaves byte k of the image at memory[0x200 + k] and leaves memory below
\* 0x200, the registers, the program counter and the stack unchanged.
C23_LoadProgramChecksLength ==
    [][ \A data \in Images(suite) :
          (load_program /\ load_program_data(data))
          => /\ status' = "running"
             /\ Len(data) <= 3584
                  => /\ \A k \in 1..Len(data) : Mem(512 + k - 1)' = data[k]
                     /\ \A a \in 0..511 : Mem(a)' = Mem(a)
                     /\ UNCHANGED <<v, i, pc, stack, sp>> ]_vars

\* let fontset_test: [u8; 80] of test_fontset, the table the test expects in
\* memory[0..80]: five rows per hex digit.
fontset_test == <<
    240, 144, 144, 144, 240,   32,  96,  32,  32, 112,
    240,  16, 240, 128, 240,  240,  16, 240,  16, 240,
    144, 144, 240,  16,  16,  240, 128, 240,  16, 240,
    240, 128, 240, 144, 240,  240,  16,  32,  64,  64,
    240, 144, 240, 144, 240,  240, 144, 240,  16, 240,
    240, 144, 240, 144, 144,  224, 144, 224, 144, 224,
    240, 128, 128, 128, 240,  224, 144, 144, 144, 224,
    240, 128, 240, 128, 240,  240, 128, 240, 128, 128 >>

\* C24: load_fontset leaves the glyph table in memory[0..80] and changes
\* nothing else; and while memory[0..80] still holds the table, Fx29 with
\* Vx = d in 0..15 sets I = 5 * d, where the five rows of glyph d are.
C24_FontsetAndGlyphAddress ==
    [][ /\ load_fontset
          => /\ \A a \in 0..79 : Mem(a)' = fontset_test[a + 1]
             /\ \A a \in 80..(MEM_SIZE - 1) : Mem(a)' = Mem(a)
             /\ UNCHANGED <<opcode, v, i, pc, gfx, delay_timer, sound_timer,
                            stack, sp, key, draw_flag, status>>
        /\ (emulate_cycle /\ FetchInBounds /\ family = 15 /\ kk = 41
               /\ v[x] \in 0..15
               /\ \A a \in 0..79 : Mem(a) = fontset_test[a + 1])
          => /\ i' = 5 * v[x]
             /\ \A d \in {v[x]} :
                  \A row \in 0..4 : Mem(5 * d + row)' = fontset_test[5 * d + row + 1]
             /\ Len(fontset_test) = 80 ]_vars

\* C24 witness: Fx29 has completed with Vx = 0xA and I is at glyph A, whose
\* rows are F0 90 F0 90 90.
C24_Witness ==
    /\ Running /\ printed = "LD F, Vx"
    /\ v[(opcode \div 256) % 16] = 10
    /\ i = 50
    /\ <<Mem(50), Mem(51), Mem(52), Mem(53), Mem(54)>> = <<240, 144, 240, 144, 144>>

\* C29: the state initialize produces (the one load_fontset starts from) has
\* pc = 0x200, sp = 0, all stack entries 0, all registers, the index, the
\* timers, the keys, memory and the display zero and the redraw flag false;
\* load_fontset then changes only memory[0..80].
C29_InitialState ==
    [][ load_fontset
        => /\ pc = 512 /\ sp = 0 /\ i = 0
           /\ delay_timer = 0 /\ sound_timer = 0 /\ draw_flag = FALSE
           /\ \A s \in 0..15 : stack[s] = 0 /\ v[s] = 0 /\ key[s] = 0
           /\ \A a \in 0..4095 : Mem(a) = 0
           /\ \A cell \in Cells : Pixel(gfx, cell[1], cell[2]) = 0
           /\ DOMAIN stack = 0..15 /\ DOMAIN v = 0..15 /\ DOMAIN key = 0..15
           /\ \A a \in 80..4095 : Mem(a)' = 0
           /\ UNCHANGED <<v, i, pc, gfx, delay_timer, sound_timer, stack, sp,
                          key, draw_flag>> ]_vars

\* C29 witness: load_fontset has run on the initialized machine.
C29_Witness ==
    /\ phase = "fontset"
    /\ pc = 512 /\ sp = 0
    /\ Mem(0) = 240 /\ Mem(79) = 128 /\ Mem(80) = 0

\* C25: 3xkk, 4xkk and 5xy0 advance the program counter by 4 when their
\* condition holds (Vx = kk, Vx # kk, Vx = Vy) and by 2 otherwise, and change
\* nothing else; the conditions of 3xkk and 4xkk being each other's negation,
\* exactly one of the two skips for the same state, x and kk.
C25_ConditionalSkips ==
    [][ (emulate_cycle /\ FetchInBounds
            /\ (family \in {3, 4} \/ (family = 5 /\ n = 0)))
        => /\ pc' = (IF CASE family = 3 -> v[x] = kk
                          [] family = 4 -> v[x] # kk
                          [] family = 5 -> v[x] = v[y]
                     THEN pc + 4 ELSE pc + 2)
           /\ UNCHANGED <<memory, v, i, gfx, delay_timer, sound_timer, stack,
                          sp, key, draw_flag, status>> ]_vars

\* C25 witness: a 3xkk has skipped, Vx being kk.
C25_Witness ==
    /\ Running /\ printed = "SE Vx, byte"
    /\ pc = before.pc + 4
    /\ v[(opcode \div 256) % 16] = opcode % 256

\* C26: with Vx in 0..15, Ex9E advances the program counter by 4 if key Vx is
\* pressed and by 2 otherwise, ExA1 by 4 if key Vx is not pressed and by 2
\* otherwise, pressed being what lets Fx0A proceed (a key state other than
\* 0); the step does not write the key array.
C26_KeySkips ==
    [][ (emulate_cycle /\ FetchInBounds /\ family = 14 /\ kk \in {158, 161}
            /\ v[x] \in 0..15)
        => /\ pc' = (IF (kk = 158) <=> (v[x] \in Pressed) THEN pc + 4 ELSE pc + 2)
           /\ key' = key ]_vars

\* C26 witness: an Ex9E has skipped, key Vx being pressed.
C26_Witness ==
    /\ Running /\ printed = "SKP Vx"
    /\ pc = before.pc + 4
    /\ v[(opcode \div 256) % 16] \in Pressed

\* C27: 7xkk completes for all values of Vx and kk and leaves
\* Vx = (old Vx + kk) mod 256; for x other than 0xF it leaves VF unchanged.
C27_AddByteWraps ==
    [][ (emulate_cycle /\ FetchInBounds /\ family = 7)
        => /\ status' = "running"
           /\ v'[x] = (v[x] + kk) % 256
           /\ (x # 15 => v'[15] = v[15]) ]_vars

\* C27 witness: 7001 has completed on V0 = 0xFF and left V0 = 0, VF being the
\* 9 it was loaded with.
C27_Witness ==
    /\ Running /\ printed = "ADD Vx, byte"
    /\ opcode = W_ADD(0, 1)
    /\ before.v[0] = 255 /\ v[0] = 0
    /\ v[15] = 9

\* C28: 6xkk leaves Vx = kk, every other register unchanged and the program
\* counter advanced by 2, for every x and kk.
C28_LoadByte ==
    [][ (emulate_cycle /\ FetchInBounds /\ family = 6)
        => /\ v'[x] = kk
           /\ \A r \in (0..15) \ {x} : v'[r] = v[r]
           /\ pc' = pc + 2 ]_vars

\* C28 witness: 6FFF has completed after 6109: VF = 0xFF, V1 still 9.
C28_Witness ==
    /\ Running /\ printed = "LD Vx, byte"
    /\ opcode = W_LD(15, 255)
    /\ v[15] = 255 /\ v[1] = 9
    /\ pc = before.pc + 2

\* C30: nested calls return in LIFO order.  With calls the addresses of the
\* CALLs executed and not yet returned from, oldest first: the stack pointer
\* is the number of these; a RET with one or more of them pending completes,
\* sets the program counter to the address of the newest one + 2 and takes
\* one off the stack pointer; a CALL with fewer than 16 pending completes and
\* adds one; and no step changes a stack entry below the stack pointer.
C30_NestedCallsLifo ==
    [][ emulate_cycle
        => /\ sp = Len(calls)
           /\ (IsRet /\ calls # <<>>)
                => /\ status' = "running"
                   /\ pc' = calls[Len(calls)] + 2
                   /\ sp' = sp - 1
                   /\ calls' = SubSeq(calls, 1, Len(calls) - 1)
           /\ (IsCall /\ Len(calls) < STACK_SIZE)
                => /\ status' = "running"
                   /\ sp' = sp + 1
                   /\ calls' = Append(calls, pc)
           /\ \A j \in 0..(sp - 1) : stack'[j] = stack[j] ]_vars

\* C30 witness: the last of 16 RETs that followed 16 nested CALLs has
\* completed: the stack pointer is back at 0 and the program counter is behind
\* the first CALL.
C30_Witness ==
    /\ Running /\ printed = "RET"
    /\ nCalls = STACK_SIZE /\ nRets = STACK_SIZE
    /\ calls = <<>> /\ sp = 0
    /\ pc = PROG_START + 2
    /\ stack[STACK_SIZE - 1] = NestLevel(STACK_SIZE - 1) + 2

====
